---- MODULE Spec2Model ----
(***************************************************************************)
(* Model of 64x64-version-scales-32x32-images.py: a CircuitPython script   *)
(* that plays bitmap strip animations on a 64x64 LED matrix, scaling       *)
(* 32-pixel-high strips 2x, with a blank transition between clips.         *)
(*                                                                         *)
(* The script is one sequential thread; pc is its position.  Time is kept  *)
(* in units of 0.1 s (the value of animation_speed), as the difference     *)
(* time.monotonic() - start_time.                                          *)
(***************************************************************************)
EXTENDS Integers, Sequences, FiniteSets, TLC

VARIABLES
    pc,            \* position of the single thread of control (see Positions)
    idx,           \* position of "for bitmap_name in bitmap_names" (1-based)
    site,          \* call site of the running transition_to_black: "try" / "except"
    err,           \* the exception in flight: its type and message (NoError if none)
    heap,          \* the live displayio.Bitmap objects, by object id
    image_bit,     \* play_animation local: reference to the loaded bitmap
    final_bitmap,  \* play_animation local: reference to the strip for the TileGrid
    total_frames,  \* play_animation local
    frame,         \* play_animation local: next frame index
    elapsed,       \* time.monotonic() - start_time
    ticks,         \* number of frame selections made by the running play loop
    group,         \* the display's root group: a sequence of tile grids
    hold,          \* transition_to_black: sleeps completed by its for loop
    slept,         \* transition_to_black: time spent in those sleeps
    log            \* console lines printed since the for loop bound bitmap_name

vars == <<pc, idx, site, err, heap, image_bit, final_bitmap, total_frames, frame,
          elapsed, ticks, group, hold, slept, log>>

---------------------------------------------------------------------------
(* Configuration (lines 10-16).  Times are in units of 0.1 s.              *)

animation_speed == 1
play_time == 30
transition_frames == 5
bitmap_names == <<"octopus", "ghost", "parrot", "girl-earing-half", "mona-half">>

---------------------------------------------------------------------------
(* Bounds of the model.                                                    *)

\* a stored bitmap of height h is 1..MaxHalfTiles times h / 2 wide: up to
\* MaxHalfTiles / 2 square frames, and the widths halfway between
MaxHalfTiles == 4
\* pixel patterns offered by storage are 0..MaxPattern
MaxPattern == 0
\* the non-sleep work of one tick (frame selection, print) takes 0..MaxOverhead
MaxOverhead == 1

NumColors == 5

---------------------------------------------------------------------------
(* displayio.Bitmap: width, height and row-major pixel values.             *)

\* A local that holds a bitmap holds a reference to it: an object id, or None.
\* Object 1 is the bitmap adafruit_imageload.load returned, object 2 the
\* scaled_bitmap allocated at line 74.
None == 0
LoadedId == 1
ScaledId == 2

\* displayio.Bitmap(w, h, n): all pixels 0
NewBitmap(w, h) == [width |-> w, height |-> h, pix |-> [i \in 1..(w * h) |-> 0]]

\* bitmap[x, y]
GetPixel(b, x, y) == b.pix[y * b.width + x + 1]

\* bitmap[x, y] = v, on the row-major pixels pix of a bitmap of width w
SetPixel(pix, w, x, y, v) == [pix EXCEPT ![y * w + x + 1] = v]

---------------------------------------------------------------------------
(* What adafruit_imageload.load can return: bitmaps of several geometries. *)

PatternValue(p, x, y) == ((p + 1) * x + (p + 2) * y + p) % NumColors

StoredBitmap(w, h, p) ==
    [width |-> w, height |-> h,
     pix |-> [i \in 1..(w * h) |-> PatternValue(p, (i - 1) % w, (i - 1) \div w)]]

Heights == {16, 32, 64}
Widths(h) == {(h \div 2) * k : k \in 1..MaxHalfTiles}
Patterns == 0..MaxPattern

Loadable ==
    UNION {{StoredBitmap(w, h, p) : w \in Widths(h), p \in Patterns} :
           h \in Heights}

---------------------------------------------------------------------------
(* The 2x scaling loops of play_animation (lines 77-90).                   *)
(*                                                                         *)
(* The loops run on the locals they read and write, held in a record:      *)
(*   src           image_bit                                               *)
(*   pix           the pixels of scaled_bitmap                             *)
(*   scaled_width  the width of scaled_bitmap                              *)
(*   frame, y, x   the three loop variables                                *)
(* Each loop is an operator from the locals before the iterations still to *)
(* run to the locals after them; the locals after one iteration, with the  *)
(* loop variable advanced (n), are computed before the rest of the loop    *)
(* runs on them.                                                           *)

\* ScalePixel with the destination frames as wide as the source frames
ScalePixel_NarrowFrames(st) ==
    LET source_x_start == st.frame * 32
        pixel_value == GetPixel(st.src, source_x_start + st.x, st.y)
        dest_x_start == st.frame * 32
        p1 == SetPixel(st.pix, st.scaled_width,
                       dest_x_start + st.x * 2, st.y * 2, pixel_value)
        p2 == SetPixel(p1, st.scaled_width,
                       dest_x_start + st.x * 2 + 1, st.y * 2, pixel_value)
        p3 == SetPixel(p2, st.scaled_width,
                       dest_x_start + st.x * 2, st.y * 2 + 1, pixel_value)
        p4 == SetPixel(p3, st.scaled_width,
                       dest_x_start + st.x * 2 + 1, st.y * 2 + 1, pixel_value)
    IN  [st EXCEPT !.pix = p4]

\* lines 79, 84-90: one source pixel to its 2x2 block
ScalePixel(st) ==
    LET source_x_start == st.frame * 32
        pixel_value == GetPixel(st.src, source_x_start + st.x, st.y)
        dest_x_start == st.frame * 64
        p1 == SetPixel(st.pix, st.scaled_width,
                       dest_x_start + st.x * 2, st.y * 2, pixel_value)
        p2 == SetPixel(p1, st.scaled_width,
                       dest_x_start + st.x * 2 + 1, st.y * 2, pixel_value)
        p3 == SetPixel(p2, st.scaled_width,
                       dest_x_start + st.x * 2, st.y * 2 + 1, pixel_value)
        p4 == SetPixel(p3, st.scaled_width,
                       dest_x_start + st.x * 2 + 1, st.y * 2 + 1, pixel_value)
    IN  [st EXCEPT !.pix = p4]

RECURSIVE ScaleRow(_)
\* line 83: for x in range(32), from st.x on
ScaleRow(st) ==
    IF st.x >= 32 THEN st
    ELSE CHOOSE r \in {ScaleRow(n) :
                       n \in {[ScalePixel(st) EXCEPT !.x = st.x + 1]}} : TRUE

RECURSIVE ScaleFrame(_)
\* line 82: for y in range(32), from st.y on
ScaleFrame(st) ==
    IF st.y >= 32 THEN st
    ELSE CHOOSE r \in {ScaleFrame(n) :
                       n \in {[ScaleRow([st EXCEPT !.x = 0])
                                  EXCEPT !.y = st.y + 1]}} : TRUE

RECURSIVE ScaleFrames(_, _)
\* line 77: for frame in range(original_frames), from st.frame on
ScaleFrames(st, original_frames) ==
    IF st.frame >= original_frames THEN st
    ELSE CHOOSE r \in {ScaleFrames(n, original_frames) :
                       n \in {[ScaleFrame([st EXCEPT !.y = 0])
                                  EXCEPT !.frame = st.frame + 1]}} : TRUE

\* lines 69-90: scaled_bitmap once the loops have run
ScaledStrip(image) ==
    LET original_frames == image.width \div 32
        scaled_width == original_frames * 64
        scaled_bitmap == NewBitmap(scaled_width, 64)
        locals == [src |-> image, pix |-> scaled_bitmap.pix,
                   scaled_width |-> scaled_width, frame |-> 0, y |-> 0, x |-> 0]
    IN  [scaled_bitmap EXCEPT !.pix = ScaleFrames(locals, original_frames).pix]

---------------------------------------------------------------------------
(* Positions of the thread of control.                                     *)
(*   setup    lines 21-31, before the display is constructed               *)
(*   halted   the process has ended with an uncaught error                 *)
(*   load     play_animation entered, before adafruit_imageload.load       *)
(*   classify line 63, the bitmap is loaded                                *)
(*   install  line 115, the strip is classified and scaled                 *)
(*   test     line 135, the while condition                                *)
(*   sleep    line 139, before time.sleep                                  *)
(*   except   line 165, an exception of play_animation is being handled    *)
(*   clear    transition_to_black entered (line 145)                       *)
(*   hold     line 149, the for loop of transition_to_black                *)

Positions == {"setup", "halted", "load", "classify", "install", "test", "sleep",
              "except", "clear", "hold"}

InLoop == pc \notin {"setup", "halted"}

\* an exception: its type and what its message reports
Error(type, detail) == [type |-> type, detail |-> detail]
NoError == Error("none", <<>>)

\* the clip the for loop has bound to bitmap_name
bitmap_name == bitmap_names[idx]

\* displayio.TileGrid(bitmap, width=1, height=1, tile_width, tile_height);
\* tile is the index written by image_grid[0] = ...
TileGrid(bitmap, tile_width, tile_height) ==
    [bitmap |-> bitmap, tile_width |-> tile_width, tile_height |-> tile_height,
     tile |-> 0]

\* PopAll with the pop loops removed
PopAll_None(g) == g

RECURSIVE PopAll(_)
\* while len(group) > 0: group.pop()
PopAll(g) == IF Len(g) > 0 THEN PopAll(SubSeq(g, 1, Len(g) - 1)) ELSE g

\* the bitmaps the tile grids of g refer to
Referenced(g) == {g[i].bitmap : i \in 1..Len(g)}

\* the heap once the objects nothing refers to are collected
Collected(h, live) == [r \in (DOMAIN h) \cap live |-> h[r]]

\* the locals of play_animation, gone when it returns or raises
NoLocals ==
    /\ image_bit' = None
    /\ final_bitmap' = None
    /\ total_frames' = 0
    /\ frame' = 0
    /\ elapsed' = 0
    /\ ticks' = 0

Init ==
    /\ pc = "setup"
    /\ idx = 1
    /\ site = "none"
    /\ err = NoError
    /\ heap = <<>>
    /\ image_bit = None
    /\ final_bitmap = None
    /\ total_frames = 0
    /\ frame = 0
    /\ elapsed = 0
    /\ ticks = 0
    /\ group = <<>>
    /\ hold = 0
    /\ slept = 0
    /\ log = <<>>

\* Setup with the display constructed inside the try statement of line 162, so
\* that a failure of Matrix is handled like a failure of a clip
Setup_Caught ==
    /\ pc = "setup"
    /\ \E ok \in BOOLEAN :
          IF ok
          THEN /\ pc' = "load"
               /\ err' = NoError
          ELSE /\ pc' = "except"
               /\ err' = Error("HardwareInitFailure", <<>>)
    /\ group' = <<>>
    /\ idx' = 1
    /\ UNCHANGED <<site, heap, image_bit, final_bitmap, total_frames, frame,
                   elapsed, ticks, hold, slept, log>>

\* lines 21-31 and 160-161: the display is constructed (or Matrix raises, which
\* nothing catches) and the loops bind the first bitmap_name
Setup ==
    /\ pc = "setup"
    /\ \E ok \in BOOLEAN :
          IF ok
          THEN /\ pc' = "load"
               /\ err' = NoError
          ELSE /\ pc' = "halted"
               /\ err' = Error("HardwareInitFailure", <<>>)
    /\ group' = <<>>
    /\ idx' = 1
    /\ UNCHANGED <<site, heap, image_bit, final_bitmap, total_frames, frame,
                   elapsed, ticks, hold, slept, log>>

\* lines 53-60: adafruit_imageload.load returns a bitmap or raises
Load ==
    /\ pc = "load"
    /\ \/ /\ \E b \in Loadable : heap' = (LoadedId :> b)
          /\ image_bit' = LoadedId
          /\ pc' = "classify"
          /\ err' = NoError
       \/ /\ heap' = <<>>
          /\ image_bit' = None
          /\ pc' = "except"
          /\ err' = Error("DecodeFailure", <<>>)
    /\ UNCHANGED <<idx, site, final_bitmap, total_frames, frame, elapsed, ticks,
                   group, hold, slept, log>>

(* Lines 63-112.  The outcome of classifying and scaling a bitmap b is a    *)
(* record: the exception raised, the bitmap allocated (scaled_bitmap, if   *)
(* any), whether final_bitmap is that bitmap or b itself, total_frames and *)
(* the line printed.                                                       *)

\* lines 66, 101, 112: raise ValueError; the message reports a width and the
\* multiple it must be of, or a height
Rejected(field, value, multiple) ==
    [raised |-> Error("ValueError", <<field, value, multiple>>), scaled |-> <<>>,
     final |-> None, total_frames |-> 0, line |-> "none"]

\* lines 65-96: a 32-pixel-high bitmap
LegacyClass(b) ==
    IF b.width % 32 # 0
    THEN Rejected("width", b.width, 32)
    ELSE [raised |-> NoError, scaled |-> <<ScaledStrip(b)>>, final |-> ScaledId,
          total_frames |-> b.width \div 32, line |-> "scaling"]

\* TargetClass with the width test of the 32-pixel branch
TargetClass_Mod32(b) ==
    IF b.width % 32 # 0
    THEN Rejected("width", b.width, 64)
    ELSE [raised |-> NoError, scaled |-> <<>>, final |-> LoadedId,
          total_frames |-> b.width \div 64, line |-> "using"]

\* TargetClass handing on a fresh bitmap of the same size instead of b
TargetClass_BlankCopy(b) ==
    IF b.width % 64 # 0
    THEN Rejected("width", b.width, 64)
    ELSE [raised |-> NoError, scaled |-> <<NewBitmap(b.width, 64)>>,
          final |-> ScaledId,
          total_frames |-> b.width \div 64, line |-> "using"]

\* lines 100-109: a 64-pixel-high bitmap
TargetClass(b) ==
    IF b.width % 64 # 0
    THEN Rejected("width", b.width, 64)
    ELSE [raised |-> NoError, scaled |-> <<>>, final |-> LoadedId,
          total_frames |-> b.width \div 64, line |-> "using"]

\* Classified with the 64-pixel branch missing: both heights go to the scaler
Classified_AlwaysScale(b) ==
    IF b.height = 32 \/ b.height = 64 THEN LegacyClass(b)
    ELSE Rejected("height", b.height, 0)

\* lines 63, 98, 111
Classified(b) ==
    IF b.height = 32 THEN LegacyClass(b)
    ELSE IF b.height = 64 THEN TargetClass(b)
    ELSE Rejected("height", b.height, 0)

\* Classify with the tile grid of the loaded bitmap appended to the group
\* before the geometry is checked
Classify_InstallFirst ==
    /\ pc = "classify"
    /\ group' = Append(PopAll(group), TileGrid(image_bit, 64, 64))
    /\ \E c \in {Classified(heap[image_bit])} :
          /\ log' = IF c.line = "none" THEN log
                    ELSE Append(log, <<c.line, bitmap_name, 0, 0>>)
          /\ IF c.raised # NoError
             THEN /\ pc' = "except"
                  /\ err' = c.raised
                  /\ heap' = Collected(heap, Referenced(group'))
                  /\ NoLocals
             ELSE /\ pc' = "install"
                  /\ err' = NoError
                  /\ heap' = IF c.scaled = <<>> THEN heap
                             ELSE heap @@ (ScaledId :> c.scaled[1])
                  /\ final_bitmap' = c.final
                  /\ total_frames' = c.total_frames
                  /\ UNCHANGED <<image_bit, frame, elapsed, ticks>>
    /\ UNCHANGED <<idx, site, hold, slept>>

\* lines 63-112
Classify ==
    /\ pc = "classify"
    /\ \E c \in {Classified(heap[image_bit])} :
          /\ log' = IF c.line = "none" THEN log
                    ELSE Append(log, <<c.line, bitmap_name, 0, 0>>)
          /\ IF c.raised # NoError
             THEN /\ pc' = "except"
                  /\ err' = c.raised
                  /\ heap' = Collected(heap, Referenced(group))
                  /\ NoLocals
             ELSE /\ pc' = "install"
                  /\ err' = NoError
                  /\ heap' = IF c.scaled = <<>> THEN heap
                             ELSE heap @@ (ScaledId :> c.scaled[1])
                  /\ final_bitmap' = c.final
                  /\ total_frames' = c.total_frames
                  /\ UNCHANGED <<image_bit, frame, elapsed, ticks>>
    /\ UNCHANGED <<idx, site, group, hold, slept>>

\* Install with the tile size of the 32-pixel frames
Install_LegacyTile ==
    /\ pc = "install"
    /\ group' = Append(PopAll(group), TileGrid(final_bitmap, 32, 32))
    /\ frame' = 0
    /\ elapsed' = 0
    /\ ticks' = 0
    /\ pc' = "test"
    /\ UNCHANGED <<idx, site, err, heap, image_bit, final_bitmap, total_frames,
                   hold, slept, log>>

\* lines 115-133: empty the group, append the tile grid, frame = 0, take start_time
Install ==
    /\ pc = "install"
    /\ group' = Append(PopAll(group), TileGrid(final_bitmap, 64, 64))
    /\ frame' = 0
    /\ elapsed' = 0
    /\ ticks' = 0
    /\ pc' = "test"
    /\ UNCHANGED <<idx, site, err, heap, image_bit, final_bitmap, total_frames,
                   hold, slept, log>>

\* TickSelect stopping at the last frame instead of wrapping
TickSelect_NoWrap ==
    /\ pc = "test"
    /\ elapsed < play_time
    /\ group' = [group EXCEPT ![Len(group)].tile = frame]
    /\ frame' = IF frame + 1 < total_frames THEN frame + 1 ELSE frame
    /\ log' = Append(log, <<"frame", bitmap_name, frame + 1, total_frames>>)
    /\ ticks' = ticks + 1
    /\ \E w \in 0..MaxOverhead : elapsed' = elapsed + w
    /\ pc' = "sleep"
    /\ UNCHANGED <<idx, site, err, heap, image_bit, final_bitmap, total_frames,
                   hold, slept>>

\* TickSelect going back to the while condition without the sleep of line 139
TickSelect_NoSleep ==
    /\ pc = "test"
    /\ elapsed < play_time
    /\ group' = [group EXCEPT ![Len(group)].tile = frame]
    /\ frame' = (frame + 1) % total_frames
    /\ log' = Append(log, <<"frame", bitmap_name, (frame + 1) % total_frames,
                            total_frames>>)
    /\ ticks' = ticks + 1
    /\ \E w \in 0..MaxOverhead : elapsed' = elapsed + w
    /\ pc' = "test"
    /\ UNCHANGED <<idx, site, err, heap, image_bit, final_bitmap, total_frames,
                   hold, slept>>

\* TickSelect with the while condition "<= duration"
TickSelect_Inclusive ==
    /\ pc = "test"
    /\ elapsed <= play_time
    /\ group' = [group EXCEPT ![Len(group)].tile = frame]
    /\ frame' = (frame + 1) % total_frames
    /\ log' = Append(log, <<"frame", bitmap_name, (frame + 1) % total_frames,
                            total_frames>>)
    /\ ticks' = ticks + 1
    /\ \E w \in 0..MaxOverhead : elapsed' = elapsed + w
    /\ pc' = "sleep"
    /\ UNCHANGED <<idx, site, err, heap, image_bit, final_bitmap, total_frames,
                   hold, slept>>

\* lines 135-138: the while condition holds; select the frame, advance, print.
\* This work takes w units of time.
TickSelect ==
    /\ pc = "test"
    /\ elapsed < play_time
    /\ group' = [group EXCEPT ![Len(group)].tile = frame]
    /\ frame' = (frame + 1) % total_frames
    /\ log' = Append(log, <<"frame", bitmap_name, (frame + 1) % total_frames,
                            total_frames>>)
    /\ ticks' = ticks + 1
    /\ \E w \in 0..MaxOverhead : elapsed' = elapsed + w
    /\ pc' = "sleep"
    /\ UNCHANGED <<idx, site, err, heap, image_bit, final_bitmap,
                   total_frames, hold, slept>>

\* line 139: time.sleep(animation_speed)
TickSleep ==
    /\ pc = "sleep"
    /\ elapsed' = elapsed + animation_speed
    /\ pc' = "test"
    /\ UNCHANGED <<idx, site, err, heap, image_bit, final_bitmap, total_frames, frame,
                   ticks, group, hold, slept, log>>

\* line 135 false: play_animation returns; line 164 calls transition_to_black
PlayDone ==
    /\ pc = "test"
    /\ ~(elapsed < play_time)
    /\ NoLocals
    /\ heap' = Collected(heap, Referenced(group))
    /\ site' = "try"
    /\ pc' = "clear"
    /\ UNCHANGED <<idx, err, group, hold, slept, log>>

\* Except without the try/except of lines 162-165: the error ends the process
Except_Uncaught ==
    /\ pc = "except"
    /\ pc' = "halted"
    /\ UNCHANGED <<idx, site, err, heap, image_bit, final_bitmap, total_frames,
                   frame, elapsed, ticks, group, hold, slept, log>>

\* Except without the print of line 166
Except_NoLog ==
    /\ pc = "except"
    /\ err' = NoError
    /\ site' = "except"
    /\ pc' = "clear"
    /\ UNCHANGED <<idx, heap, image_bit, final_bitmap, total_frames, frame,
                   elapsed, ticks, group, hold, slept, log>>

\* lines 165-167: the exception is caught and printed; transition_to_black is called
Except ==
    /\ pc = "except"
    /\ log' = Append(log, <<"error", bitmap_name, err.type, err.detail>>)
    /\ err' = NoError
    /\ site' = "except"
    /\ pc' = "clear"
    /\ UNCHANGED <<idx, heap, image_bit, final_bitmap, total_frames, frame,
                   elapsed, ticks, group, hold, slept>>

\* TransClear without the pop loop of lines 145-146
TransClear_NoPop ==
    /\ pc = "clear"
    /\ hold' = 0
    /\ slept' = 0
    /\ pc' = "hold"
    /\ UNCHANGED <<idx, site, err, heap, image_bit, final_bitmap, total_frames,
                   frame, elapsed, ticks, group, log>>

\* lines 145-146: empty the group
TransClear ==
    /\ pc = "clear"
    /\ group' = PopAll(group)
    /\ heap' = Collected(heap, Referenced(PopAll(group)))
    /\ hold' = 0
    /\ slept' = 0
    /\ pc' = "hold"
    /\ UNCHANGED <<idx, site, err, image_bit, final_bitmap, total_frames, frame,
                   elapsed, ticks, log>>

\* lines 149-150: one time.sleep(animation_speed) of the hold
TransSleep ==
    /\ pc = "hold"
    /\ hold < transition_frames
    /\ hold' = hold + 1
    /\ slept' = slept + animation_speed
    /\ UNCHANGED <<pc, idx, site, err, heap, image_bit, final_bitmap, total_frames,
                   frame, elapsed, ticks, group, log>>

\* NextClip with the hold one sleep short (range(transition_frames - 1))
NextClip_ShortHold ==
    /\ pc = "hold"
    /\ ~(hold < transition_frames - 1)
    /\ idx' = (idx % Len(bitmap_names)) + 1
    /\ site' = "none"
    /\ hold' = 0
    /\ slept' = 0
    /\ log' = <<>>
    /\ pc' = "load"
    /\ UNCHANGED <<err, heap, image_bit, final_bitmap, total_frames, frame,
                   elapsed, ticks, group>>

\* NextClip leaving the for loop after a failed clip (break for continue), so
\* that while True starts the list again
NextClip_RestartOnError ==
    /\ pc = "hold"
    /\ ~(hold < transition_frames)
    /\ idx' = IF site = "except" THEN 1 ELSE (idx % Len(bitmap_names)) + 1
    /\ site' = "none"
    /\ hold' = 0
    /\ slept' = 0
    /\ log' = <<>>
    /\ pc' = "load"
    /\ UNCHANGED <<err, heap, image_bit, final_bitmap, total_frames, frame,
                   elapsed, ticks, group>>

\* the for loop of line 149 is exhausted: transition_to_black returns, and the
\* loops of lines 160-161 bind the next bitmap_name and enter play_animation
NextClip ==
    /\ pc = "hold"
    /\ ~(hold < transition_frames)
    /\ idx' = (idx % Len(bitmap_names)) + 1
    /\ site' = "none"
    /\ hold' = 0
    /\ slept' = 0
    /\ log' = <<>>
    /\ pc' = "load"
    /\ UNCHANGED <<err, heap, image_bit, final_bitmap, total_frames, frame,
                   elapsed, ticks, group>>

Next ==
    \/ Setup
    \/ Load
    \/ Classify
    \/ Install
    \/ TickSelect
    \/ TickSleep
    \/ PlayDone
    \/ Except
    \/ TransClear
    \/ TransSleep
    \/ NextClip

Spec == Init /\ [][Next]_vars

\* The single thread always takes its next step: every call it makes
\* (load, sleep, print) returns.
LiveSpec == Spec /\ WF_vars(Next)

---------------------------------------------------------------------------
(* Director: failure isolation, transition, order.                         *)

\* the clip that follows clip i in bitmap_names, the first after the last
Following(i) == IF i = Len(bitmap_names) THEN 1 ELSE i + 1

\* C1: whatever each load does (succeed, fail to decode, bad geometry), the
\* main loop never terminates: once in the loop the program always has a next
\* step and never halts; an error in flight is at the Director's handler,
\* the handler's step starts transition_to_black for the same clip, and the
\* for loop only ever moves from a clip to the one that follows it (so the
\* failing clip is neither retried first nor is a clip skipped).
C1_ErrorIsolation ==
    /\ [](InLoop => ENABLED Next)
    /\ [](InLoop /\ err # NoError => pc = "except")
    /\ [][/\ InLoop => InLoop'
          /\ pc = "except" => pc' = "clear" /\ site' = "except" /\ idx' = idx
          /\ pc \in {"clear", "hold"} /\ site = "except"
                => \/ pc' = "hold" /\ idx' = idx /\ site' = site
                   \/ pc' = "load" /\ idx' = Following(idx)
          /\ InLoop /\ idx' # idx => pc' = "load" /\ idx' = Following(idx)
          /\ InLoop /\ pc # "load" /\ pc' = "load" => idx' # idx]_vars

\* the last clip failed and its transition has completed
C1_Witness ==
    /\ pc = "hold" /\ site = "except" /\ hold = transition_frames
    /\ idx = Len(bitmap_names)

---------------------------------------------------------------------------
(* Frame Source and Scaler.                                                *)

\* C2: when a 32-pixel-high strip of F frames has been scaled (the state
\* before line 115), scaled_bitmap is 64F x 64, every source pixel (x, y) of
\* frame f equals the four destination pixels of its 2x2 block at
\* (64f + 2x, 2y), and every destination pixel (X, Y) equals source pixel
\* (32 (X div 64) + (X mod 64) div 2, Y div 2).
C2_ScaledPixels ==
    pc = "install" /\ heap[image_bit].height = 32 =>
        LET src == heap[image_bit]
            dst == heap[final_bitmap]
            F == src.width \div 32
        IN  /\ final_bitmap = ScaledId
            /\ dst.width = 64 * F /\ dst.height = 64
            /\ DOMAIN dst.pix = 1..(64 * F * 64)
            /\ \A f \in 0..(F - 1) : \A x \in 0..31 : \A y \in 0..31 :
                  LET v == GetPixel(src, 32 * f + x, y)
                  IN  /\ GetPixel(dst, 64 * f + 2 * x, 2 * y) = v
                      /\ GetPixel(dst, 64 * f + 2 * x + 1, 2 * y) = v
                      /\ GetPixel(dst, 64 * f + 2 * x, 2 * y + 1) = v
                      /\ GetPixel(dst, 64 * f + 2 * x + 1, 2 * y + 1) = v
            /\ \A X \in 0..(64 * F - 1) : \A Y \in 0..63 :
                  GetPixel(dst, X, Y)
                    = GetPixel(src, 32 * (X \div 64) + (X % 64) \div 2, Y \div 2)

\* a strip of two or more frames has been scaled
C2_Witness ==
    /\ pc = "install" /\ final_bitmap = ScaledId
    /\ heap[image_bit].height = 32 /\ total_frames >= 2

\* C3: the classification of a loaded W x H bitmap raises the geometry error
\* exactly when H is neither 32 nor 64, or H = 32 and W is no multiple of 32,
\* or H = 64 and W is no multiple of 64; otherwise the bitmap is accepted
\* with total_frames = W / 32 (H = 32) or W / 64 (H = 64).
C3_GeometryCheck ==
    [][pc = "classify" =>
         LET W == heap[image_bit].width
             H == heap[image_bit].height
             bad == \/ H \notin {32, 64}
                    \/ H = 32 /\ W % 32 # 0
                    \/ H = 64 /\ W % 64 # 0
         IN  /\ bad <=> (pc' = "except" /\ err'.type = "ValueError")
             /\ ~bad => /\ pc' = "install"
                        /\ err' = NoError
                        /\ H = 32 => total_frames' * 32 = W
                        /\ H = 64 => total_frames' * 64 = W]_vars

\* a 64-pixel-high bitmap whose width is a multiple of 32 but not of 64 has
\* been rejected
C3_Witness ==
    pc = "except" /\ err = Error("ValueError", <<"width", 96, 64>>)

\* C7: for a 64-pixel-high bitmap whose width is a multiple of 64, the strip
\* handed to the tile grid is the loaded bitmap object itself, total_frames is
\* width / 64, and no step from classification to the end of playback
\* changes a pixel of it or allocates another bitmap.
C7_TargetIdentity ==
    [][/\ pc \in {"classify", "install", "test", "sleep"}
       /\ heap[LoadedId].height = 64 /\ heap[LoadedId].width % 64 = 0
       => /\ heap' = heap
          /\ pc = "classify" => /\ pc' = "install"
                                /\ final_bitmap' = LoadedId
                                /\ image_bit' = LoadedId
                                /\ total_frames' * 64 = heap[LoadedId].width
          /\ pc = "install" => /\ Len(group') = 1
                               /\ group'[1].bitmap = LoadedId
                               /\ group'[1].tile_width = 64
                               /\ group'[1].tile_height = 64]_vars

\* a two-frame 64-pixel-high strip is installed and playing
C7_Witness ==
    /\ pc = "sleep" /\ final_bitmap = LoadedId /\ total_frames = 2
    /\ group[1].bitmap = LoadedId /\ heap[LoadedId].width = 128

---------------------------------------------------------------------------
(* Playback Engine.                                                        *)

\* C4: while a clip of N = total_frames >= 1 frames is playing, the frame
\* selected by the k-th tick (k = 0, 1, ...) is k mod N: the tile grid shows
\* frame 0 until the first tick, after ticks selections it shows frame
\* (ticks - 1) mod N, the next one to be selected is ticks mod N, and the
\* index written to the tile grid is always in 0..N-1.
C4_FrameCycle ==
    pc \in {"test", "sleep"} =>
        /\ total_frames >= 1
        /\ Len(group) = 1
        /\ group[1].tile \in 0..(total_frames - 1)
        /\ frame = ticks % total_frames
        /\ ticks = 0 => group[1].tile = 0
        /\ ticks > 0 => group[1].tile = (ticks - 1) % total_frames

\* a two-frame clip has wrapped: its third selection shows frame 0 again
C4_Witness ==
    /\ pc = "sleep" /\ total_frames = 2 /\ ticks = 3 /\ group[1].tile = 0

CeilDiv(a, b) == (a + b - 1) \div b

\* C8 as stated: the play loop returns with D <= elapsed < D + C, after at
\* most ceil(D / C) ticks.
C8_AsStated ==
    pc = "test" /\ ~(elapsed < play_time) =>
        /\ elapsed >= play_time
        /\ elapsed < play_time + animation_speed
        /\ ticks <= CeilDiv(play_time, animation_speed)

\* C8, amended: with D = play_time, C = animation_speed and w the longest
\* the non-sleep work of one tick takes (MaxOverhead): time advances by at
\* least C and at most C + w per tick; the loop starts a tick exactly when
\* elapsed < D and otherwise returns without writing to the group; it
\* returns with D <= elapsed < D + C + w after at most ceil(D / C) ticks,
\* and after exactly ceil(D / C) ticks when only the sleeps took time.
C8_BoundedPlayback ==
    /\ [](pc = "test" =>
            /\ ticks * animation_speed <= elapsed
            /\ elapsed <= ticks * (animation_speed + MaxOverhead))
    /\ [](pc = "test" /\ ~(elapsed < play_time) =>
            /\ elapsed >= play_time
            /\ elapsed < play_time + animation_speed + MaxOverhead
            /\ ticks >= 1
            /\ ticks <= CeilDiv(play_time, animation_speed)
            /\ elapsed = ticks * animation_speed
                  => /\ ticks = CeilDiv(play_time, animation_speed)
                     /\ elapsed < play_time + animation_speed)
    /\ [][/\ pc = "test" /\ elapsed >= play_time
                => pc' = "clear" /\ group' = group
          /\ pc = "test" /\ elapsed < play_time
                => pc' = "sleep" /\ ticks' = ticks + 1
          /\ pc = "sleep"
                => /\ pc' = "test" /\ ticks' = ticks /\ group' = group
                   /\ elapsed' = elapsed + animation_speed]_vars

\* the loop is about to return having overrun the duration by a whole cadence
\* interval or more
C8_Witness ==
    /\ pc = "test" /\ elapsed >= play_time + animation_speed
    /\ ticks < CeilDiv(play_time, animation_speed)

---------------------------------------------------------------------------
(* Transition Controller.                                                  *)

\* C5: between two consecutive clip attempts exactly one transition runs,
\* the same after a success and after a failure: an attempt ends only by
\* entering transition_to_black; that first empties the group, then makes
\* exactly transition_frames sleeps of animation_speed each, during which
\* nothing is written to the group; and play_animation is entered again only
\* from the end of the hold, after the last sleep.
C5_Transition ==
    /\ [](pc = "hold" => /\ group = <<>>
                         /\ hold \in 0..transition_frames
                         /\ slept = hold * animation_speed)
    /\ [][/\ pc' = "clear" => pc \in {"test", "except"}
          /\ pc = "except" => pc' = "clear"
          /\ pc = "test" /\ pc' # "sleep" => pc' = "clear"
          /\ pc = "clear" => /\ pc' = "hold" /\ group' = <<>>
                             /\ hold' = 0 /\ slept' = 0
          /\ pc = "hold" => /\ group' = group
                            /\ \/ /\ pc' = "hold"
                                  /\ hold' = hold + 1
                                  /\ slept' = slept + animation_speed
                               \/ /\ pc' = "load"
                                  /\ hold = transition_frames
                                  /\ slept = transition_frames * animation_speed
          /\ pc' = "hold" => pc \in {"clear", "hold"}
          /\ pc' = "load" => pc \in {"setup", "hold"}]_vars

\* the transition after a clip that played to the end has made its last sleep
C5_Witness ==
    /\ pc = "hold" /\ site = "try" /\ hold = transition_frames
    /\ slept = transition_frames * animation_speed /\ group = <<>>

---------------------------------------------------------------------------
(* Logging of failed clips.                                                *)

ErrorLines == SelectSeq(log, LAMBDA l : l[1] = "error")
FrameLines == SelectSeq(log, LAMBDA l : l[1] = "frame")

\* the state in which play_animation is entered, whatever came before
EntryState ==
    /\ site = "none" /\ err = NoError /\ heap = <<>> /\ group = <<>>
    /\ image_bit = None /\ final_bitmap = None /\ total_frames = 0
    /\ frame = 0 /\ elapsed = 0 /\ ticks = 0
    /\ hold = 0 /\ slept = 0 /\ log = <<>>

\* C9: for a clip attempt whose load fails (decode failure or unsupported
\* geometry): when the error reaches the handler nothing has been selected
\* for display and no frame line or error line is logged; the handler logs
\* exactly one error line, naming the clip; through the transition that
\* follows there is still one error line, no frame line and an empty group;
\* the transition runs its full transition_frames sleeps; and the next clip
\* is entered in the same state (apart from the clip bound) as after a
\* successful clip and as the first clip.
C9_FailedClip ==
    /\ [](pc = "except" => /\ err.type \in {"DecodeFailure", "ValueError"}
                           /\ ErrorLines = <<>> /\ FrameLines = <<>>
                           /\ group = <<>> /\ ticks = 0)
    /\ [](site = "except" => /\ pc \in {"clear", "hold"}
                             /\ Len(ErrorLines) = 1
                             /\ ErrorLines[1][2] = bitmap_name
                             /\ FrameLines = <<>>
                             /\ group = <<>> /\ ticks = 0)
    /\ [](pc = "load" => EntryState)
    /\ [][/\ pc = "except"
                => /\ pc' = "clear" /\ site' = "except"
                   /\ log' = Append(log, <<"error", bitmap_name, err.type,
                                           err.detail>>)
          /\ site = "except" /\ pc' = "load"
                => /\ hold = transition_frames
                   /\ slept = transition_frames * animation_speed
                   /\ idx' = Following(idx)]_vars

\* a clip failed to decode, one line was logged and the transition is complete
C9_Witness ==
    /\ pc = "hold" /\ site = "except" /\ hold = transition_frames
    /\ log = <<<<"error", bitmap_name, "DecodeFailure", <<>> >>>>

---------------------------------------------------------------------------
(* Director: order and progress.                                           *)

\* C6: the clips are attempted in the order of bitmap_names, cyclically: the
\* first attempt is for the first clip, the attempt after the one for clip i
\* is for the clip that follows i (the first after the last), whatever the
\* outcome was, and the clip bound changes at no other step; the loop has no
\* exit; and, every step of the thread completing, from any point in the loop
\* the last clip of the list comes to be attempted, so that by the order
\* above every clip is attempted again and again.
C6_CyclicOrder ==
    /\ [][/\ pc = "setup" /\ pc' = "load" => idx' = 1
          /\ InLoop /\ pc' = "load" => idx' = Following(idx)
          /\ InLoop /\ pc' # "load" => idx' = idx
          /\ InLoop => InLoop']_vars
    /\ InLoop ~> (pc = "load" /\ idx = Len(bitmap_names))

\* the last clip has played and its transition is complete: the list wraps
C6_Witness ==
    /\ pc = "hold" /\ site = "try" /\ hold = transition_frames
    /\ idx = Len(bitmap_names) /\ Len(FrameLines) > 0

\* C10: whenever play_animation has been entered and is still loading,
\* validating or scaling (before line 115), the display group is empty.
C10_GroupEmptyOnEntry ==
    pc \in {"load", "classify", "install"} => group = <<>>

\* a later clip has been loaded and scaled, and is about to be installed
C10_Witness ==
    /\ pc = "install" /\ idx = 2 /\ final_bitmap = ScaledId /\ group = <<>>

---------------------------------------------------------------------------
(* Installed strip, fatal start-up error, blank failed clip.               *)

\* C11: while an accepted bitmap of either class is installed, the group holds
\* one tile grid with 64 x 64 tiles whose strip is 64 pixels high and exactly
\* 64 * total_frames wide (with that many pixels), and total_frames >= 1; for
\* a 32-pixel-high source total_frames is the source width / 32, for a
\* 64-pixel-high one the source width / 64.
C11_InstalledStrip ==
    pc \in {"test", "sleep"} =>
        /\ Len(group) = 1
        /\ group[1].bitmap = final_bitmap
        /\ group[1].tile_width = 64 /\ group[1].tile_height = 64
        /\ total_frames >= 1
        /\ LET strip == heap[group[1].bitmap]
               source == heap[image_bit]
           IN  /\ strip.height = 64
               /\ strip.width = 64 * total_frames
               /\ DOMAIN strip.pix = 1..(64 * total_frames * 64)
               /\ source.height \in {32, 64}
               /\ source.height = 32 => /\ total_frames * 32 = source.width
                                        /\ final_bitmap = ScaledId
               /\ source.height = 64 => /\ total_frames * 64 = source.width
                                        /\ final_bitmap = LoadedId

\* a two-frame 32-pixel-high source is installed as a 128-pixel-wide strip
C11_Witness ==
    /\ pc = "test" /\ Len(group) = 1 /\ group[1].bitmap = ScaledId
    /\ heap[image_bit].width = 64 /\ heap[ScaledId].width = 128

\* C12: if the display cannot be constructed the process ends with that
\* error before the main loop: the process halts only from the set-up, with
\* the error still in flight, nothing loaded, logged or shown and no
\* transition begun; a halted process takes no further step; and the per-clip
\* handler never sees that error.
C12_FatalSetup ==
    /\ [](pc = "halted" => /\ err = Error("HardwareInitFailure", <<>>)
                           /\ heap = <<>> /\ image_bit = None
                           /\ group = <<>> /\ log = <<>>
                           /\ site = "none" /\ hold = 0 /\ slept = 0)
    /\ [](err.type = "HardwareInitFailure" => pc = "halted")
    /\ [](pc = "halted" => ~ENABLED <<Next>>_vars)
    /\ [][/\ pc' = "halted" => pc = "setup"
          /\ pc # "halted"
          /\ pc' = "except" => pc \in {"load", "classify"}]_vars

\* the display could not be constructed
C12_Witness ==
    pc = "halted" /\ err.type = "HardwareInitFailure"

\* C13: a call of play_animation that raises leaves the group as it was on
\* entry: an exception comes only from the load or the classification, the
\* steps up to there do not write to the group, and the group is written
\* only by the install, the ticks and the transition; the group being empty
\* on entry, it is empty from the end of the previous transition (or the
\* set-up) through the failed call, its handler and the whole of its
\* transition, until the next clip is entered.
C13_FailedClipBlank ==
    /\ [](pc \in {"load", "classify", "except"} \/ site = "except"
             => group = <<>>)
    /\ [][/\ pc' = "except" => pc \in {"load", "classify"} /\ group' = group
          /\ pc \in {"load", "classify", "except"} => group' = group
          /\ group' # group => pc \in {"install", "test", "clear"}
          /\ site = "except" => group' = <<>>
          /\ site = "except" /\ pc' = "load" => hold = transition_frames]_vars

\* the second clip was rejected for its height and its transition is complete
C13_Witness ==
    /\ pc = "hold" /\ site = "except" /\ hold = transition_frames /\ idx = 2
    /\ group = <<>>
    /\ Len(log) = 1 /\ log[1][3] = "ValueError" /\ log[1][4][1] = "height"

---------------------------------------------------------------------------
(* One sprite at a time; order of the steps of a clip.                     *)

\* C14: the group never holds more than one tile grid: it grows only at the
\* install, which leaves exactly the new clip's tile grid in it, and every
\* other step leaves its length alone or empties it.
C14_OneTileGrid ==
    /\ [](Len(group) <= 1)
    /\ [][/\ Len(group') > Len(group) => pc = "install"
          /\ pc = "install" => /\ Len(group') = 1
                               /\ group'[1].bitmap = final_bitmap
          /\ pc # "install" => Len(group') = Len(group) \/ group' = <<>>]_vars

\* the second clip is playing, alone in the group
C14_Witness ==
    /\ pc = "sleep" /\ idx = 2 /\ ticks >= 1
    /\ Len(group) = 1 /\ group[1].bitmap = final_bitmap

\* C15: within a clip the steps come in the order load, classify and scale,
\* install, ticks.  When the install is reached for a 32-pixel-high source
\* every pixel of the scaled strip already has its final value, and from the
\* install to the end of playback no pixel of the installed strip changes.
\* During playback the group changes only by a tick writing the frame index
\* of its one tile grid; every tick is followed by its sleep of
\* animation_speed before the while condition is read again, and the sleep
\* selects nothing.
C15_StepOrder ==
    /\ [](pc = "install" /\ final_bitmap = ScaledId =>
            LET src == heap[image_bit]
                dst == heap[ScaledId]
            IN  \A i \in DOMAIN dst.pix :
                   LET X == (i - 1) % dst.width
                       Y == (i - 1) \div dst.width
                   IN  dst.pix[i] = GetPixel(src, 32 * (X \div 64)
                                                  + (X % 64) \div 2, Y \div 2))
    /\ [](pc = "install" => ticks = 0 /\ group = <<>>)
    /\ [][/\ pc = "load" => pc' \in {"classify", "except"}
          /\ pc = "classify" => pc' \in {"install", "except"}
          /\ pc = "install" => pc' = "test" /\ ticks' = 0
          /\ pc = "test" => pc' \in {"sleep", "clear"}
          /\ pc = "sleep" => pc' = "test"
          /\ pc' = "classify" => pc = "load"
          /\ pc' = "install" => pc = "classify"
          /\ pc' = "test" => pc \in {"install", "sleep"}
          /\ pc' = "sleep" => pc = "test"
          /\ pc \in {"install", "test", "sleep"}
                => /\ final_bitmap \in DOMAIN heap'
                   /\ heap'[final_bitmap] = heap[final_bitmap]
          /\ pc = "test" => \/ /\ pc' = "sleep" /\ ticks' = ticks + 1
                                /\ group' = [group EXCEPT ![1].tile = frame]
                             \/ /\ pc' = "clear" /\ group' = group
          /\ pc = "sleep" => /\ group' = group /\ ticks' = ticks
                             /\ elapsed' = elapsed + animation_speed
          /\ ticks' # ticks /\ ticks' # 0 => pc = "test" /\ pc' = "sleep"]_vars

\* a scaled two-frame strip is playing: its second tick has selected frame 1
C15_Witness ==
    /\ pc = "sleep" /\ final_bitmap = ScaledId /\ total_frames = 2
    /\ ticks = 2 /\ group[1].tile = 1

---------------------------------------------------------------------------
(* Normalisation applied twice.                                            *)

\* the strip play_animation installs for a loaded bitmap b it accepts
Normalised(b) ==
    LET c == Classified(b)
    IN  IF c.final = ScaledId THEN c.scaled[1] ELSE b

\* C16: the strip that the classification and scaling of an accepted bitmap
\* (of either class) produced, loaded and put through the same step again,
\* is accepted as a 64-pixel-high strip whose width is a multiple of 64: no
\* bitmap is allocated, the strip handed on is the loaded one itself, pixel
\* for pixel, and total_frames is the same.
C16_NormaliseTwice ==
    pc = "install" =>
        LET strip == heap[final_bitmap]
            again == Classified(strip)
        IN  /\ strip.height = 64 /\ strip.width % 64 = 0
            /\ again.raised = NoError
            /\ again.scaled = <<>>
            /\ again.final = LoadedId
            /\ again.line = "using"
            /\ again.total_frames = total_frames
            /\ Normalised(strip) = strip

\* a scaled (hence changed) two-frame strip is about to be installed
C16_Witness ==
    /\ pc = "install" /\ final_bitmap = ScaledId /\ total_frames = 2
    /\ heap[ScaledId] # heap[LoadedId] /\ heap[ScaledId].width = 128

====
